---- MODULE Spec2Model ----
(***************************************************************************)
(* A model of src/src/pipeline/utils/pg.py: the DB facade of the package   *)
(* metadata pipeline.  One behaviour is one load operation (an insert_    *)
(* method) run by one sequential caller on one input stream, through       *)
(* the entity generator and DB._batch, possibly aborted by a failure and   *)
(* possibly re-run on the same input.                                      *)
(*                                                                         *)
(* The relational store is a record of tables (sets of rows).  `db` holds  *)
(* what is committed; `pending` holds the rows the session opened by       *)
(* DB._batch has inserted and not yet committed.                           *)
(***************************************************************************)
EXTENDS Integers, Sequences, FiniteSets, TLC

\* Bounds of the model.
MaxLen == 3      \* longest input stream
MaxBatch == 2    \* largest batch_size (DEFAULT_BATCH_SIZE is 10000 in the source)
MaxRuns == 2     \* how often the caller runs the operation on the same input
MaxFaults == 1   \* how many failures the environment injects in one behaviour
MaxCalls == 3    \* how many get-or-create calls a behaviour makes

VARIABLES
    op,             \* the load operation the caller runs
    input,          \* the raw record stream handed to it
    batch_size,     \* batch_size of DB._batch; also the chunk size of insert_versions
    run,            \* 1 on the first run, 2 on the re-run, ...
    faults,         \* failures injected so far
    faults_before,  \* history: failures injected when this run started
    pc,             \* control location of the running operation
    pos,            \* number of records read from the input stream
    batch,          \* DB._batch: the buffer `batch`
    pending,        \* rows inserted by the open session, not committed
    db,             \* the committed store
    db_before,      \* history: the committed store when this run started
    flushed,        \* history: the row lists of the bulk inserts of this run
    commits,        \* history: number of session.commit() of DB._batch in this run
    log,            \* history: logger.warn events of this run
    built,          \* history: entities built by the generator in this run
    items_buffer,   \* insert_versions: raw records of the current chunk
    versions,       \* insert_versions: Version objects of the current chunk
    idx,            \* insert_versions: position in items_buffer while resolving
    tail,           \* insert_versions: the chunk is the remainder after the loop
    package_cache,  \* insert_versions: import_id -> Package.id
    license_cache,  \* insert_versions: name -> License.id
    qlog,           \* history: lookups and resolutions of this insert_versions run
    unique,         \* the store enforces the unique keys of the reference tables
    gpc,            \* get-or-create: control location of each caller
    gcall,          \* get-or-create: the call each caller is in
    ghist           \* history: the get-or-create calls that returned, in order

vars == <<op, input, batch_size, run, faults, faults_before, pc, pos, batch, pending,
          db, db_before, flushed, commits, log, built, items_buffer, versions, idx,
          tail, package_cache, license_cache, qlog, unique, gpc, gcall, ghist>>

----------------------------------------------------------------------------
\* Values passed in by the orchestration code.
PackageManagerId == 1
PackageManagerName == "crates"
SourceId == 1

NoRow == [none |-> TRUE]

SimpleOps == {"packages", "users", "urls"}
RefOps == {"dependencies", "user_packages", "user_versions", "package_urls"}
Ops == SimpleOps \cup RefOps \cup {"versions"}

\* The model class each operation hands to DB._batch.
ModelOf(o) ==
    CASE o = "packages" -> "Package"
      [] o = "versions" -> "Version"
      [] o = "dependencies" -> "DependsOn"
      [] o = "users" -> "User"
      [] o = "user_packages" -> "UserPackage"
      [] o = "user_versions" -> "UserVersion"
      [] o = "urls" -> "URL"
      [] o = "package_urls" -> "PackageURL"

\* The raw records a source connector may produce for each operation.
Records(o) ==
    CASE o = "packages" -> [name : {"x", "y"}, import_id : {"A", "B"}, readme : {"r"}]
      [] o = "versions" -> [crate_id : {"A", "B"}, license : {"MIT", "GPL"},
                            import_id : {"v2"}]
      [] o = "dependencies" -> [start_id : {"v1", "v2"}, end_id : {"A", "B"},
                                semver_range : {"^1"}]
      [] o = "users" -> [username : {"x", "y"}, import_id : {"u1", "u2"},
                         source_id : {SourceId}]
      [] o = "user_packages" -> [crate_id : {"A", "B"}, owner_id : {"u1", "u2"}]
      [] o = "user_versions" -> [version_id : {"v1", "v2"}, published_by : {"u1", "u2"}]
      [] o = "urls" -> [url : {"h1", "h2"}, url_type_id : {1, 2}]
      [] o = "package_urls" -> [import_id : {"A", "B"}, url : {"h1", "h2"},
                                url_type_id : {1}]

\* The store before the run: package A, its version v1 under license MIT,
\* user u1 of source 1 and url h1 of type 1 exist; B, v2, GPL, u2, h2 do not.
\* Source crates (id 1) has a PackageManager; URLType homepage has id 1.
DB0 ==
    [Package |-> {[id |-> 1, derived_id |-> <<"crates", "x">>, name |-> "x",
                   package_manager_id |-> 1, import_id |-> "A", readme |-> "r"]},
     Version |-> {[id |-> 1, package_id |-> 1, import_id |-> "v1", license_id |-> 1]},
     License |-> {[id |-> 1, name |-> "MIT"]},
     User |-> {[id |-> 1, username |-> "x", import_id |-> "u1", source_id |-> 1]},
     URL |-> {[id |-> 1, url |-> "h1", url_type_id |-> 1]},
     DependsOn |-> {},
     UserPackage |-> {},
     UserVersion |-> {},
     PackageURL |-> {},
     Source |-> {[id |-> 1, type |-> "crates"]},
     PackageManager |-> {[id |-> 1, source_id |-> 1]},
     URLType |-> {[id |-> 1, name |-> "homepage"]}]

\* Tables whose rows get a surrogate id from the store on insert.
HasId(model) == model \in {"Package", "Version", "License", "User", "URL"}

\* The uniqueness constraint of each table (spec.md section 3).
UniqueKey(model, r) ==
    CASE model = "Package" -> <<r.import_id>>
      [] model = "Version" -> <<r.import_id>>
      [] model = "License" -> <<r.name>>
      [] model = "User" -> <<r.import_id, r.source_id>>
      [] model = "URL" -> <<r.url, r.url_type_id>>
      [] model = "DependsOn" -> <<r.version_id, r.dependency_id>>
      [] model = "UserPackage" -> <<r.user_id, r.package_id>>
      [] model = "UserVersion" -> <<r.user_id, r.version_id>>
      [] model = "PackageURL" -> <<r.package_id, r.url_id>>

\* query(...).first(): the matching row, or None.
First(rows) == IF rows = {} THEN NoRow ELSE CHOOSE r \in rows : TRUE

select_package_by_import_id(d, import_id) ==
    First({r \in d.Package : r.import_id = import_id})

select_version_by_import_id(d, import_id) ==
    First({r \in d.Version : r.import_id = import_id})

select_crates_user_by_import_id(d, import_id, crates_sources_id) ==
    First({r \in d.User : r.import_id = import_id /\ r.source_id = crates_sources_id})

select_url_by_url_and_type(d, url, url_type_id) ==
    First({r \in d.URL : r.url = url /\ r.url_type_id = url_type_id})

select_packages_by_import_ids(d, iids) == {r \in d.Package : r.import_id \in iids}

select_licenses_by_name(d, names) == {r \in d.License : r.name \in names}

Yield(row) == [skip |-> FALSE, row |-> row]
Skip(msg) == [skip |-> TRUE, msg |-> msg]

\* One iteration of the generator loop of an operation other than
\* insert_versions: the entity it yields, or the warning it logs before
\* `continue`.
package_object_generator(item) ==
    Yield([derived_id |-> <<PackageManagerName, item.name>>, name |-> item.name,
           package_manager_id |-> PackageManagerId, import_id |-> item.import_id,
           readme |-> item.readme])

user_object_generator(item) ==
    Yield([username |-> item.username, import_id |-> item.import_id,
           source_id |-> item.source_id])

url_object_generator(item) ==
    Yield([url |-> item.url, url_type_id |-> item.url_type_id])

\* Mutant: the dependency is not checked before the entity is built.
dependency_object_generator_unchecked(d, item) ==
    LET version == select_version_by_import_id(d, item.start_id)
        dependency == select_package_by_import_id(d, item.end_id)
    IN  IF version = NoRow THEN Skip(<<"version", item.start_id>>)
        ELSE Yield([version_id |-> version.id,
                    dependency_id |-> IF dependency = NoRow THEN 0 ELSE dependency.id,
                    semver_range |-> item.semver_range])

dependency_object_generator(d, item) ==
    LET version == select_version_by_import_id(d, item.start_id)
        dependency == select_package_by_import_id(d, item.end_id)
    IN  IF version = NoRow THEN Skip(<<"version", item.start_id>>)
        ELSE IF dependency = NoRow THEN Skip(<<"package", item.end_id>>)
        ELSE Yield([version_id |-> version.id, dependency_id |-> dependency.id,
                    semver_range |-> item.semver_range])

user_package_object_generator(d, item) ==
    LET user == select_crates_user_by_import_id(d, item.owner_id, SourceId)
        package == select_package_by_import_id(d, item.crate_id)
    IN  IF user = NoRow THEN Skip(<<"user", item.owner_id>>)
        ELSE IF package = NoRow THEN Skip(<<"package", item.crate_id>>)
        ELSE Yield([user_id |-> user.id, package_id |-> package.id])

user_version_object_generator(d, item) ==
    LET user == select_crates_user_by_import_id(d, item.published_by, SourceId)
        version == select_version_by_import_id(d, item.version_id)
    IN  IF user = NoRow THEN Skip(<<"user", item.published_by>>)
        ELSE IF version = NoRow THEN Skip(<<"version", item.version_id>>)
        ELSE Yield([user_id |-> user.id, version_id |-> version.id])

\* Mutant: the package is looked up by the record's url.
package_url_object_generator_wrong_key(d, item) ==
    LET package == select_package_by_import_id(d, item.url)
        url == select_url_by_url_and_type(d, item.url, item.url_type_id)
    IN  IF package = NoRow THEN Skip(<<"package", item.import_id>>)
        ELSE IF url = NoRow THEN Skip(<<"url", "None">>)
        ELSE Yield([package_id |-> package.id, url_id |-> url.id])

\* The url warning formats the variable `url` after it was rebound to None.
package_url_object_generator(d, item) ==
    LET package == select_package_by_import_id(d, item.import_id)
        url == select_url_by_url_and_type(d, item.url, item.url_type_id)
    IN  IF package = NoRow THEN Skip(<<"package", item.import_id>>)
        ELSE IF url = NoRow THEN Skip(<<"url", "None">>)
        ELSE Yield([package_id |-> package.id, url_id |-> url.id])

Generate(o, d, item) ==
    CASE o = "packages" -> package_object_generator(item)
      [] o = "users" -> user_object_generator(item)
      [] o = "urls" -> url_object_generator(item)
      [] o = "dependencies" -> dependency_object_generator(d, item)
      [] o = "user_packages" -> user_package_object_generator(d, item)
      [] o = "user_versions" -> user_version_object_generator(d, item)
      [] o = "package_urls" -> package_url_object_generator(d, item)

----------------------------------------------------------------------------
\* An item DB._batch receives: an entity, or (from insert_versions) a list.
Entity(row) == [list |-> FALSE, val |-> row]
ListItem(rows) == [list |-> TRUE, val |-> rows]

\* Mutant: the buffer is flushed one item late.
BatchFullLate(b, size) == Len(b) > size

\* len(batch) == batch_size
BatchFull(b, size) == Len(b) = size

\* if batch:
BatchLeft(b) == b # <<>>

\* item.to_dict() exists for entities only: a list raises AttributeError.
ToDictRaises(b) == \E i \in 1..Len(b) : b[i].list

NewId(rows) == Cardinality(rows) + 1

Stored(model, row, rows) ==
    IF HasId(model) THEN [id |-> NewId(rows)] @@ row ELSE row

\* Mutant: ON CONFLICT DO UPDATE, the incoming row replaces the stored one.
OnConflictUpdate(model, row, rows) ==
    LET old == CHOOSE e \in rows : UniqueKey(model, e) = UniqueKey(model, row)
    IN  (rows \ {old}) \cup {IF HasId(model) THEN [id |-> old.id] @@ row ELSE row}

\* What ON CONFLICT DO NOTHING does with a row whose unique key is taken.
OnConflict(model, row, rows) == rows

\* insert(model).values(rows).on_conflict_do_nothing() over the rows visible
\* to the session: the table after the statement.
RECURSIVE InsertRows(_, _, _)
InsertRows(model, rows, visible) ==
    IF rows = <<>> THEN visible
    ELSE LET r == Head(rows)
             next == IF \E e \in visible : UniqueKey(model, e) = UniqueKey(model, r)
                     THEN OnConflict(model, r, visible)
                     ELSE visible \cup {Stored(model, r, visible)}
         IN  InsertRows(model, Tail(rows), next)

BatchRows(b) == [i \in 1..Len(b) |-> b[i].val]

----------------------------------------------------------------------------
\* Mutant: the License added on a miss is never committed.
select_license_by_name_uncommitted(d, license_name, create) ==
    LET result == First({r \in d.License : r.name = license_name})
    IN  IF result # NoRow THEN [db |-> d, id |-> result.id]
        ELSE IF create THEN [db |-> d, id |-> NewId(d.License)]
        ELSE [db |-> d, id |-> 0]

\* DB.select_license_by_name in its own session: the store after the call
\* and the id it returns (0 for None).
select_license_by_name(d, license_name, create) ==
    LET result == First({r \in d.License : r.name = license_name})
        added == [d EXCEPT !.License =
                     @ \cup {[id |-> NewId(@), name |-> license_name]}]
    IN  IF result # NoRow THEN [db |-> d, id |-> result.id]
        ELSE IF create
             THEN [db |-> added,
                   id |-> First({r \in added.License : r.name = license_name}).id]
             ELSE [db |-> d, id |-> 0]

\* len(items_buffer) >= DEFAULT_BATCH_SIZE
ChunkFull(buf, size) == Len(buf) >= size

\* Mutant: the cache is rebuilt from the packages of the current chunk.
PackageCacheRebuild(cache, packages) ==
    [k \in {r.import_id : r \in packages} |->
        (CHOOSE r \in packages : r.import_id = k).id]

\* query_packages_and_licenses, lines 139-140: package_cache after
\* for package in packages: package_cache[package.import_id] = package.id
PackageCacheUpdate(cache, packages) ==
    [k \in DOMAIN cache \cup {r.import_id : r \in packages} |->
        IF \E r \in packages : r.import_id = k
        THEN (CHOOSE r \in packages : r.import_id = k).id
        ELSE cache[k]]

\* Mutant: every fetched name is cached with the id of the first License.
LicenseCacheUpdateFirstId(cache, licenses) ==
    [k \in DOMAIN cache \cup {r.name : r \in licenses} |->
        IF \E r \in licenses : r.name = k
        THEN (CHOOSE r \in licenses : \A q \in licenses : r.id <= q.id).id
        ELSE cache[k]]

\* query_packages_and_licenses, lines 148-149: license_cache after
\* for license in licenses: license_cache[license.name] = license.id
LicenseCacheUpdate(cache, licenses) ==
    [k \in DOMAIN cache \cup {r.name : r \in licenses} |->
        IF \E r \in licenses : r.name = k
        THEN (CHOOSE r \in licenses : r.name = k).id
        ELSE cache[k]]

CrateIds(items) == {items[i].crate_id : i \in 1..Len(items)}
LicenseNames(items) == {items[i].license : i \in 1..Len(items)}

\* The Version object built from a buffered item (its version, size,
\* published_at, downloads and checksum are copied from the item unchanged).
VersionOf(item, package_id, license_id) ==
    [package_id |-> package_id, import_id |-> item.import_id,
     license_id |-> license_id]

----------------------------------------------------------------------------
\* The callers of the get-or-create operations.
Procs == {1, 2}
NoCall == [fn |-> "none"]

Streams(o) == UNION {[1..n -> Records(o)] : n \in 0..MaxLen}

Init ==
    /\ op \in Ops
    /\ input \in Streams(op)
    /\ batch_size \in 1..MaxBatch
    /\ run = 1
    /\ faults = 0
    /\ faults_before = 0
    /\ pc = "read"
    /\ pos = 0
    /\ batch = <<>>
    /\ pending = {}
    /\ db = DB0
    /\ db_before = DB0
    /\ flushed = <<>>
    /\ commits = 0
    /\ log = <<>>
    /\ built = <<>>
    /\ items_buffer = <<>>
    /\ versions = <<>>
    /\ idx = 0
    /\ tail = FALSE
    /\ package_cache = <<>>
    /\ license_cache = <<>>
    /\ qlog = <<>>
    /\ unique = TRUE
    /\ gpc = [p \in Procs |-> "idle"]
    /\ gcall = [p \in Procs |-> NoCall]
    /\ ghist = <<>>

gvars == <<unique, gpc, gcall, ghist>>
ctl == <<op, input, batch_size, run, faults_before, db_before, gvars>>
vlocals == <<items_buffer, versions, idx, tail, package_cache, license_cache, qlog>>

\* The pc after the generator handed one more item to DB._batch.
AfterAppend(b) == IF BatchFull(b, batch_size) THEN "flush" ELSE "read"

\* for item in items (an operation other than insert_versions): one record
\* is read and either skipped with a warning or built and buffered.
Pull ==
    /\ op # "versions"
    /\ pc = "read"
    /\ pos < Len(input)
    /\ LET g == Generate(op, db, input[pos + 1])
       IN  IF g.skip
           THEN /\ log' = Append(log, [i |-> pos + 1, msg |-> g.msg])
                /\ UNCHANGED <<batch, built, pc>>
           ELSE /\ batch' = Append(batch, Entity(g.row))
                /\ built' = Append(built, [i |-> pos + 1, row |-> g.row])
                /\ pc' = AfterAppend(batch')
                /\ log' = log
    /\ pos' = pos + 1
    /\ UNCHANGED <<ctl, faults, pending, db, flushed, commits, vlocals>>

\* insert_versions: for item in version_generator: items_buffer.append(item)
VRead ==
    /\ op = "versions"
    /\ pc = "read"
    /\ ~tail
    /\ pos < Len(input)
    /\ items_buffer' = Append(items_buffer, input[pos + 1])
    /\ pos' = pos + 1
    /\ pc' = IF ChunkFull(items_buffer', batch_size) THEN "query" ELSE "read"
    /\ UNCHANGED <<ctl, faults, batch, pending, db, flushed, commits, log, built,
                   versions, idx, tail, package_cache, license_cache, qlog>>

\* insert_versions: the loop ended and items remain: if items_buffer:
VTail ==
    /\ op = "versions"
    /\ pc = "read"
    /\ ~tail
    /\ pos = Len(input)
    /\ items_buffer # <<>>
    /\ tail' = TRUE
    /\ pc' = "query"
    /\ UNCHANGED <<ctl, faults, pos, batch, pending, db, flushed, commits, log,
                   built, items_buffer, versions, idx, package_cache, license_cache,
                   qlog>>

\* An entry of qlog: a bulk lookup ("packages", "licenses") with its keys, a
\* point lookup ("license") with its name, or the resolution of the record at
\* input position arg ("resolve").
Lookup(kind, arg) == [kind |-> kind, arg |-> arg]

\* Mutant: the id of a license fetched on a miss is not remembered.
CacheLicenseForget(cache, name, id) == cache

\* license_cache[license_name] = license_id
CacheLicense(cache, name, id) == (name :> id) @@ cache

\* insert_versions: query_packages_and_licenses(items_buffer)
VQuery ==
    /\ pc = "query"
    /\ package_cache' = PackageCacheUpdate(package_cache,
           select_packages_by_import_ids(db, CrateIds(items_buffer)))
    /\ license_cache' = LicenseCacheUpdate(license_cache,
           select_licenses_by_name(db, LicenseNames(items_buffer)))
    /\ qlog' = qlog \o <<Lookup("packages", CrateIds(items_buffer)),
                         Lookup("licenses", LicenseNames(items_buffer))>>
    /\ idx' = 1
    /\ pc' = "resolve"
    /\ UNCHANGED <<ctl, faults, pos, batch, pending, db, flushed, commits, log,
                   built, items_buffer, versions, tail>>

\* insert_versions: one iteration of for buffered_item in items_buffer
VResolve ==
    /\ pc = "resolve"
    /\ idx <= Len(items_buffer)
    /\ LET item == items_buffer[idx]
           i == pos - Len(items_buffer) + idx
       IN  IF item.crate_id \notin DOMAIN package_cache
           THEN /\ log' = Append(log, [i |-> i, msg |-> <<"package", item.crate_id>>])
                /\ qlog' = Append(qlog, Lookup("resolve", i))
                /\ UNCHANGED <<db, license_cache, versions, built>>
           ELSE LET hit == item.license \in DOMAIN license_cache
                    got == select_license_by_name(db, item.license, TRUE)
                    license_id == IF hit THEN license_cache[item.license] ELSE got.id
                    v == VersionOf(item, package_cache[item.crate_id], license_id)
                IN  /\ db' = IF hit THEN db ELSE got.db
                    /\ license_cache' =
                           IF hit THEN license_cache
                           ELSE CacheLicense(license_cache, item.license, license_id)
                    /\ qlog' = qlog \o <<Lookup("resolve", i)>> \o
                           (IF hit THEN <<>> ELSE <<Lookup("license", item.license)>>)
                    /\ versions' = Append(versions, v)
                    /\ built' = Append(built, [i |-> i, row |-> v])
                    /\ log' = log
    /\ idx' = idx + 1
    /\ UNCHANGED <<ctl, faults, pc, pos, batch, pending, flushed, commits,
                   items_buffer, tail, package_cache>>

\* insert_versions: the chunk is resolved: yield versions (a full chunk
\* always, the remainder only if versions), then reset the buffers.
VEmit ==
    /\ pc = "resolve"
    /\ idx > Len(items_buffer)
    /\ IF ~tail \/ versions # <<>>
       THEN /\ batch' = Append(batch, ListItem(versions))
            /\ pc' = AfterAppend(batch')
       ELSE /\ batch' = batch
            /\ pc' = "read"
    /\ IF tail THEN UNCHANGED <<versions, items_buffer>>
       ELSE versions' = <<>> /\ items_buffer' = <<>>
    /\ UNCHANGED <<ctl, faults, pos, pending, db, flushed, commits, log, built,
                   idx, tail, package_cache, license_cache, qlog>>

\* The generator is exhausted: DB._batch leaves its for loop.
GeneratorDone ==
    IF op = "versions"
    THEN tail \/ (pos = Len(input) /\ items_buffer = <<>>)
    ELSE pos = Len(input)

Exhausted ==
    /\ pc = "read"
    /\ GeneratorDone
    /\ pc' = IF BatchLeft(batch) THEN "final" ELSE "commit"
    /\ UNCHANGED <<ctl, faults, pos, batch, pending, db, flushed, commits, log,
                   built, vlocals>>

\* An exception leaves the with block of DB._batch: the session is closed
\* and its transaction rolled back; the exception reaches the caller.
Abort ==
    /\ pc' = "failed"
    /\ pending' = {}
    /\ batch' = <<>>

\* Mutant: the buffer is not cleared after a flush.
InsertBatchKeepsBuffer(to) ==
    IF ToDictRaises(batch)
    THEN /\ Abort
         /\ UNCHANGED flushed
    ELSE /\ pending' = InsertRows(ModelOf(op), BatchRows(batch),
                                  db[ModelOf(op)] \cup pending) \ db[ModelOf(op)]
         /\ flushed' = Append(flushed, BatchRows(batch))
         /\ batch' = batch
         /\ pc' = to

\* self._insert_batch(batch, session, model), then control goes to `to`.
InsertBatch(to) ==
    IF ToDictRaises(batch)
    THEN /\ Abort
         /\ UNCHANGED flushed
    ELSE /\ pending' = InsertRows(ModelOf(op), BatchRows(batch),
                                  db[ModelOf(op)] \cup pending) \ db[ModelOf(op)]
         /\ flushed' = Append(flushed, BatchRows(batch))
         /\ batch' = <<>>
         /\ pc' = to

\* Mutant: the session is committed after every flush.
FlushAndCommit ==
    /\ pc = "flush"
    /\ ~ToDictRaises(batch)
    /\ db' = [db EXCEPT ![ModelOf(op)] =
                 InsertRows(ModelOf(op), BatchRows(batch), @ \cup pending)]
    /\ pending' = {}
    /\ commits' = commits + 1
    /\ flushed' = Append(flushed, BatchRows(batch))
    /\ batch' = <<>>
    /\ pc' = "read"
    /\ UNCHANGED <<ctl, faults, pos, log, built, vlocals>>

\* if len(batch) == batch_size: self._insert_batch(...); batch = []
Flush ==
    /\ pc = "flush"
    /\ InsertBatch("read")
    /\ UNCHANGED <<ctl, faults, pos, db, commits, log, built, vlocals>>

\* if batch: self._insert_batch(...)
FinalFlush ==
    /\ pc = "final"
    /\ InsertBatch("commit")
    /\ UNCHANGED <<ctl, faults, pos, db, commits, log, built, vlocals>>

\* session.commit()  # commit here
Commit ==
    /\ pc = "commit"
    /\ db' = [db EXCEPT ![ModelOf(op)] = @ \cup pending]
    /\ pending' = {}
    /\ commits' = commits + 1
    /\ pc' = "done"
    /\ UNCHANGED <<ctl, faults, pos, batch, flushed, log, built, vlocals>>

\* Mutant: the session is committed on the way out of a failed flush.
FlushRaisesAndCommits ==
    /\ pc \in {"flush", "final"}
    /\ faults < MaxFaults
    /\ faults' = faults + 1
    /\ db' = [db EXCEPT ![ModelOf(op)] = @ \cup pending]
    /\ Abort
    /\ UNCHANGED <<ctl, pos, flushed, commits, log, built, vlocals>>

\* Mutant: the failed flush is swallowed and tried again.
FlushRaisesAndRetries ==
    /\ pc \in {"flush", "final"}
    /\ faults < MaxFaults
    /\ faults' = faults + 1
    /\ UNCHANGED <<ctl, pc, pos, batch, pending, db, flushed, commits, log, built,
                   vlocals>>

\* session.execute(stmt) raises (connection lost, constraint violation).
FlushRaises ==
    /\ pc \in {"flush", "final"}
    /\ faults < MaxFaults
    /\ faults' = faults + 1
    /\ Abort
    /\ UNCHANGED <<ctl, pos, db, flushed, commits, log, built, vlocals>>

\* The input stream raises when asked for its next record.
InputRaises ==
    /\ pc = "read"
    /\ ~tail
    /\ pos < Len(input)
    /\ faults < MaxFaults
    /\ faults' = faults + 1
    /\ Abort
    /\ UNCHANGED <<ctl, pos, db, flushed, commits, log, built, vlocals>>

\* The caller runs the same operation again on the same input.
Rerun ==
    /\ pc \in {"done", "failed"}
    /\ run < MaxRuns
    /\ run' = run + 1
    /\ pc' = "read"
    /\ pos' = 0
    /\ batch' = <<>>
    /\ pending' = {}
    /\ flushed' = <<>>
    /\ commits' = 0
    /\ log' = <<>>
    /\ built' = <<>>
    /\ items_buffer' = <<>>
    /\ versions' = <<>>
    /\ idx' = 0
    /\ tail' = FALSE
    /\ package_cache' = <<>>
    /\ license_cache' = <<>>
    /\ qlog' = <<>>
    /\ db_before' = db
    /\ faults_before' = faults
    /\ UNCHANGED <<op, input, batch_size, faults, db, gvars>>

Next ==
    \/ Pull
    \/ VRead
    \/ VTail
    \/ VQuery
    \/ VResolve
    \/ VEmit
    \/ Exhausted
    \/ Flush
    \/ FinalFlush
    \/ Commit
    \/ FlushRaises
    \/ InputRaises
    \/ Rerun

Spec == Init /\ [][Next]_vars

----------------------------------------------------------------------------
\* The get-or-create operations select_source_by_name, select_url_type and
\* select_license_by_name, each called with a name and the create flag.
GetOrCreateFns == {"source", "url_type", "license"}

TableOf(fn) ==
    CASE fn = "source" -> "Source"
      [] fn = "url_type" -> "URLType"
      [] fn = "license" -> "License"

NamesOf(fn) ==
    CASE fn = "source" -> {"crates", "npm"}
      [] fn = "url_type" -> {"homepage", "repository"}
      [] fn = "license" -> {"MIT", "GPL"}

\* Source(type=name), URLType(name=name), License(name=name)
NewRow(fn, name) == IF fn = "source" THEN [type |-> name] ELSE [name |-> name]

\* filter_by(type=name), filter_by(name=...)
Matching(d, fn, name) ==
    {r \in d[TableOf(fn)] : IF fn = "source" THEN r.type = name ELSE r.name = name}

\* Mutant: the lookup's result is ignored.
FoundNever(result) == FALSE

\* if result:
Found(result) == result # NoRow

Return(p, id) ==
    /\ ghist' = Append(ghist, [p |-> p, fn |-> gcall[p].fn, name |-> gcall[p].name,
                               create |-> gcall[p].create, id |-> id])
    /\ gpc' = [gpc EXCEPT ![p] = "idle"]
    /\ gcall' = [gcall EXCEPT ![p] = NoCall]

lvars == <<op, input, batch_size, run, faults, faults_before, pc, pos, batch, pending, db_before,
           flushed, commits, log, built, vlocals>>

\* A caller enters select_source_by_name, select_url_type or
\* select_license_by_name.
GCall(p) ==
    /\ gpc[p] = "idle"
    /\ Len(ghist) + Cardinality({q \in Procs : gpc[q] \notin {"idle", "error"}}) < MaxCalls
    /\ \E fn \in GetOrCreateFns : \E name \in NamesOf(fn) : \E create \in BOOLEAN :
          gcall' = [gcall EXCEPT ![p] = [fn |-> fn, name |-> name, create |-> create]]
    /\ gpc' = [gpc EXCEPT ![p] = "select"]
    /\ UNCHANGED <<lvars, db, unique, ghist>>

\* result = session.query(...).filter_by(...).first(); if result: return
\* it; if create: go on to insert; else return None.
GSelect(p) ==
    /\ gpc[p] = "select"
    /\ \E result \in (IF Matching(db, gcall[p].fn, gcall[p].name) = {} THEN {NoRow}
                      ELSE Matching(db, gcall[p].fn, gcall[p].name)) :
          IF Found(result) THEN Return(p, result.id)
          ELSE IF gcall[p].create
               THEN /\ gpc' = [gpc EXCEPT ![p] = "insert"]
                    /\ UNCHANGED <<gcall, ghist>>
               ELSE Return(p, 0)
    /\ UNCHANGED <<lvars, db, unique>>

\* An insert that writes nothing when a row of the name exists.
GInsertIfAbsent(p) ==
    /\ gpc[p] = "insert"
    /\ db' = IF Matching(db, gcall[p].fn, gcall[p].name) # {} THEN db
             ELSE [db EXCEPT ![TableOf(gcall[p].fn)] =
                      @ \cup {[id |-> NewId(@)] @@ NewRow(gcall[p].fn, gcall[p].name)}]
    /\ gpc' = [gpc EXCEPT ![p] = "reselect"]
    /\ UNCHANGED <<lvars, unique, gcall, ghist>>

\* session.add(...); session.commit(): the commit raises IntegrityError when
\* the store enforces the unique key and the name is taken.
GInsert(p) ==
    /\ gpc[p] = "insert"
    /\ IF unique /\ Matching(db, gcall[p].fn, gcall[p].name) # {}
       THEN /\ gpc' = [gpc EXCEPT ![p] = "error"]
            /\ db' = db
       ELSE /\ db' = [db EXCEPT ![TableOf(gcall[p].fn)] =
                         @ \cup {[id |-> NewId(@)] @@ NewRow(gcall[p].fn, gcall[p].name)}]
            /\ gpc' = [gpc EXCEPT ![p] = "reselect"]
    /\ UNCHANGED <<lvars, unique, gcall, ghist>>

\* return session.query(...).filter_by(...).first()
GReselect(p) ==
    /\ gpc[p] = "reselect"
    /\ \E result \in Matching(db, gcall[p].fn, gcall[p].name) : Return(p, result.id)
    /\ UNCHANGED <<lvars, db, unique>>

\* A single sequential caller of the get-or-create operations; no load
\* operation runs.
InitGetOrCreate ==
    /\ op = "packages"
    /\ input = <<>>
    /\ batch_size = 1
    /\ run = 1
    /\ faults = 0
    /\ faults_before = 0
    /\ pc = "off"
    /\ pos = 0
    /\ batch = <<>>
    /\ pending = {}
    /\ db = DB0
    /\ db_before = DB0
    /\ flushed = <<>>
    /\ commits = 0
    /\ log = <<>>
    /\ built = <<>>
    /\ items_buffer = <<>>
    /\ versions = <<>>
    /\ idx = 0
    /\ tail = FALSE
    /\ package_cache = <<>>
    /\ license_cache = <<>>
    /\ qlog = <<>>
    /\ unique \in BOOLEAN
    /\ gpc = [p \in Procs |-> "idle"]
    /\ gcall = [p \in Procs |-> NoCall]
    /\ ghist = <<>>

NextGetOrCreate ==
    \/ GCall(1)
    \/ GSelect(1)
    \/ GInsert(1)
    \/ GReselect(1)

SpecGetOrCreate == InitGetOrCreate /\ [][NextGetOrCreate]_vars

\* DB.select_package_manager_by_name(package_manager, create), step by step.
PackageManagersOf(d, name) ==
    {m \in d.PackageManager :
        \E s \in d.Source : s.id = m.source_id /\ s.type = name}

\* A caller enters select_package_manager_by_name.
PMCall(p) ==
    /\ gpc[p] = "idle"
    /\ Len(ghist) + Cardinality({q \in Procs : gpc[q] \notin {"idle", "error"}}) < MaxCalls
    /\ \E name \in NamesOf("source") : \E create \in BOOLEAN :
          gcall' = [gcall EXCEPT ![p] = [fn |-> "package_manager", name |-> name,
                                         create |-> create, source_id |-> 0]]
    /\ gpc' = [gpc EXCEPT ![p] = "pm_select"]
    /\ UNCHANGED <<lvars, db, unique, ghist>>

\* result = session.query(PackageManager).join(Source, ...).filter(
\* Source.type == package_manager).first(); if result: return result
PMSelect(p) ==
    /\ gpc[p] = "pm_select"
    /\ \E result \in (IF PackageManagersOf(db, gcall[p].name) = {} THEN {NoRow}
                      ELSE PackageManagersOf(db, gcall[p].name)) :
          IF Found(result) THEN Return(p, result.id)
          ELSE IF gcall[p].create
               THEN /\ gpc' = [gpc EXCEPT ![p] = "pm_source"]
                    /\ UNCHANGED <<gcall, ghist>>
               ELSE Return(p, 0)
    /\ UNCHANGED <<lvars, db, unique>>

\* result = self.insert_source(package_manager): session.add(Source(...));
\* session.commit(), whether or not a Source of that name exists.
PMInsertSource(p) ==
    /\ gpc[p] = "pm_source"
    /\ IF unique /\ Matching(db, "source", gcall[p].name) # {}
       THEN /\ gpc' = [gpc EXCEPT ![p] = "error"]
            /\ db' = db
       ELSE /\ db' = [db EXCEPT !.Source =
                         @ \cup {[id |-> NewId(@)] @@ NewRow("source", gcall[p].name)}]
            /\ gpc' = [gpc EXCEPT ![p] = "pm_source_id"]
    /\ UNCHANGED <<lvars, unique, gcall, ghist>>

\* insert_source returns query(Source).filter_by(type=name).first();
\* id = result.id
PMSourceId(p) ==
    /\ gpc[p] = "pm_source_id"
    /\ \E result \in Matching(db, "source", gcall[p].name) :
          gcall' = [gcall EXCEPT ![p].source_id = result.id]
    /\ gpc' = [gpc EXCEPT ![p] = "pm_insert"]
    /\ UNCHANGED <<lvars, db, unique, ghist>>

\* insert_package_manager(id): session.add(PackageManager(source_id=id));
\* session.commit()
PMInsert(p) ==
    /\ gpc[p] = "pm_insert"
    /\ IF unique /\ \E m \in db.PackageManager : m.source_id = gcall[p].source_id
       THEN /\ gpc' = [gpc EXCEPT ![p] = "error"]
            /\ db' = db
       ELSE /\ db' = [db EXCEPT !.PackageManager =
                         @ \cup {[id |-> NewId(@), source_id |-> gcall[p].source_id]}]
            /\ gpc' = [gpc EXCEPT ![p] = "pm_reselect"]
    /\ UNCHANGED <<lvars, unique, gcall, ghist>>

\* return session.query(PackageManager).filter_by(source_id=source_id).first()
PMReselect(p) ==
    /\ gpc[p] = "pm_reselect"
    /\ \E result \in {m \in db.PackageManager : m.source_id = gcall[p].source_id} :
          Return(p, result.id)
    /\ UNCHANGED <<lvars, db, unique>>

\* A single sequential caller of all four get-or-create operations.
NextReference ==
    \/ NextGetOrCreate
    \/ PMCall(1)
    \/ PMSelect(1)
    \/ PMInsertSource(1)
    \/ PMSourceId(1)
    \/ PMInsert(1)
    \/ PMReselect(1)

SpecReference == InitGetOrCreate /\ [][NextReference]_vars

\* C11 as stated: whatever get-or-create calls one sequential caller makes,
\* no call raises and the store holds at most one Source row per name, one
\* PackageManager row per source, one URLType row per name and one License
\* row per name (so select_package_manager_by_name reuses the Source row of
\* its name when there is one).
C11_ReferenceRowsUnique ==
    /\ \A p \in Procs : gpc[p] # "error"
    /\ \A s1, s2 \in db.Source : s1.type = s2.type => s1 = s2
    /\ \A m1, m2 \in db.PackageManager : m1.source_id = m2.source_id => m1 = m2
    /\ \A u1, u2 \in db.URLType : u1.name = u2.name => u1 = u2
    /\ \A l1, l2 \in db.License : l1.name = l2.name => l1 = l2

\* C10: with one sequential caller, any two returned calls of
\* select_source_by_name(name, create=True) with the same name returned the
\* same id, the store holds exactly one Source row of that name, with that
\* id, whether or not the row existed before the first call, and no call
\* ends in an error.
C10_SourceGetOrCreate ==
    /\ gpc[1] # "error"
    /\ \A k \in 1..Len(ghist) :
          (ghist[k].fn = "source" /\ ghist[k].create) =>
              /\ {r.id : r \in {s \in db.Source : s.type = ghist[k].name}} = {ghist[k].id}
              /\ Cardinality({s \in db.Source : s.type = ghist[k].name}) = 1
              /\ \A j \in 1..Len(ghist) :
                    (ghist[j].fn = "source" /\ ghist[j].create
                        /\ ghist[j].name = ghist[k].name) => ghist[j].id = ghist[k].id

C10_Witness ==
    /\ Len(ghist) = 2
    /\ \A k \in 1..2 : ghist[k].fn = "source" /\ ghist[k].name = "npm" /\ ghist[k].create
    /\ ghist[1].id = ghist[2].id
    /\ Cardinality({s \in db.Source : s.type = "npm"}) = 1
    /\ Cardinality(db.Source) = 2

\* Two concurrent callers of select_source_by_name, select_url_type and
\* select_license_by_name: each session statement is one step, and the steps
\* of the two callers interleave freely.
NextRace ==
    \E p \in Procs : GCall(p) \/ GSelect(p) \/ GInsert(p) \/ GReselect(p)

SpecRace == InitGetOrCreate /\ [][NextRace]_vars

\* C12 as stated: when the store enforces the unique name, however two
\* concurrent get-or-create calls on one name interleave, neither caller ends
\* in an error, the store holds at most one row of that name and the calls
\* that asked for creation return the same id.
C12_RaceNeitherErrors ==
    unique =>
        /\ \A p \in Procs : gpc[p] # "error"
        /\ \A fn \in GetOrCreateFns : \A name \in NamesOf(fn) :
              Cardinality(Matching(db, fn, name)) <= 1
        /\ \A j, k \in 1..Len(ghist) :
              (/\ ghist[j].fn = ghist[k].fn
               /\ ghist[j].name = ghist[k].name
               /\ ghist[j].create /\ ghist[k].create) => ghist[j].id = ghist[k].id

\* C20: without a uniqueness constraint every insert step of a get-or-create
\* call adds a row, also when a row of that name was committed by the other
\* caller after this caller's lookup missed; so two callers racing on one
\* absent name leave two rows of that name.
C20_UnconstrainedInsertAdds ==
    [][\A p \in Procs :
          (~unique /\ gpc[p] = "insert" /\ gpc'[p] # "insert") =>
              Cardinality(Matching(db', gcall[p].fn, gcall[p].name)) =
                  Cardinality(Matching(db, gcall[p].fn, gcall[p].name)) + 1]_vars

\* Both callers have returned from select_license_by_name("GPL", create=True)
\* on a store that had no GPL row, and the store holds two GPL rows.
C20_Witness ==
    /\ ~unique
    /\ Cardinality(Matching(db, "license", "GPL")) = 2
    /\ Len(ghist) = 2
    /\ \A k \in 1..2 : ghist[k].fn = "license" /\ ghist[k].name = "GPL" /\ ghist[k].create
    /\ ghist[1].p # ghist[2].p

----------------------------------------------------------------------------
\* Properties of the load operations, checked under Spec.

Target == ModelOf(op)
Ended == pc \in {"done", "failed"}
Keys(model, rows) == {UniqueKey(model, r) : r \in rows}
FlushedRows == UNION {{flushed[i][j] : j \in 1..Len(flushed[i])} : i \in 1..Len(flushed)}

C3_FlushCount ==
    LET N == Len(built)
        B == batch_size
        F == Len(flushed)
    IN  /\ \A i \in 1..F : Len(flushed[i]) >= 1
        /\ \A i \in 1..(F - 1) : Len(flushed[i]) = B
        /\ pc \notin {"commit", "done"} => \A i \in 1..F : Len(flushed[i]) = B
        /\ pc = "done" =>
              /\ F = (N + B - 1) \div B
              /\ N > 0 => Len(flushed[F]) = (IF N % B = 0 THEN B ELSE N % B)

C3_Witness ==
    /\ pc = "done"
    /\ batch_size = 2
    /\ Len(built) = 3
    /\ Len(flushed) = 2
    /\ Len(flushed[2]) = 1

\* C4 as stated: with no failure injected, the second run of any load
\* operation on the same input completes without error and leaves the store
\* as the first run left it.
C4_SecondRunIdempotent ==
    (run = 2 /\ faults = 0 /\ Ended) => (pc = "done" /\ db = db_before)

\* C5: rows of the store are never changed or removed, a row whose unique
\* key is taken is not added beside the stored one, and a flush fails only
\* when the environment makes it fail (insert_versions apart, see C6).
C5_ExistingRowsKept ==
    /\ \A t \in DOMAIN db : db_before[t] \subseteq db[t]
    /\ \A r, e \in db[Target] \cup pending :
          UniqueKey(Target, r) = UniqueKey(Target, e) => r = e
    /\ (pc = "failed" /\ op # "versions") => faults > 0

C5_Witness ==
    /\ op = "packages"
    /\ pc = "done"
    /\ faults = 0
    /\ \E i \in 1..Len(input) : input[i].import_id = "A" /\ input[i].name = "y"
    /\ \E i \in 1..Len(input) : input[i].import_id = "B"
    /\ Cardinality(db.Package) = 2

\* Number of entries of a history that stem from input record i.
Count(h, i) == Cardinality({k \in 1..Len(h) : h[k].i = i})

\* C6 as stated, on the scenario of the spec: package A exists, license GPL
\* does not; insert_versions of one record completes and the store then
\* holds one new License row GPL and one new Version row for the record that
\* points to package A and to that license.
C6_VersionWithNewLicense ==
    (/\ op = "versions"
     /\ input = <<[crate_id |-> "A", license |-> "GPL", import_id |-> "v2"]>>
     /\ run = 1
     /\ faults = 0
     /\ Ended)
        => /\ pc = "done"
           /\ \E l \in db.License \ DB0.License :
                 /\ l.name = "GPL"
                 /\ \E v \in db.Version \ DB0.Version :
                       /\ v.import_id = "v2"
                       /\ v.package_id = 1
                       /\ v.license_id = l.id

\* C7: during insert_versions the store never holds two License rows of one
\* name, and every Version object built carries the id of the License row
\* that bears its record's license name (created on the first miss, found
\* in the cache afterwards, in the same chunk or a later one).
C7_OneLicensePerName ==
    op = "versions" =>
        /\ \A l1, l2 \in db.License : l1.name = l2.name => l1 = l2
        /\ \A k \in 1..Len(built) :
              \E l \in db.License :
                  /\ l.name = input[built[k].i].license
                  /\ l.id = built[k].row.license_id

C7_Witness ==
    /\ op = "versions"
    /\ run = 1
    /\ batch_size = 2
    /\ \E j, k \in 1..Len(built) :
          /\ built[j].i <= 2
          /\ built[k].i = 3
          /\ input[built[j].i].license = "GPL"
          /\ input[3].license = "GPL"
          /\ built[j].row.license_id = built[k].row.license_id
    /\ Cardinality({l \in db.License : l.name = "GPL"}) = 1

\* C8 as stated: with no failure injected, insert_versions of a stream that
\* holds a record of an absent package (B) completes without error, logs
\* exactly one warning for each such record and writes no Version row for it.
C8_DroppedVersionTolerated ==
    (/\ op = "versions"
     /\ faults = 0
     /\ Ended
     /\ \E i \in 1..Len(input) : input[i].crate_id = "B")
        => /\ pc = "done"
           /\ \A i \in 1..Len(input) :
                 input[i].crate_id = "B" => (Count(log, i) = 1 /\ Count(built, i) = 0)

\* Both references of a record exist in the store.
Resolves(o, d, item) ==
    CASE o = "dependencies" ->
             /\ \E v \in d.Version : v.import_id = item.start_id
             /\ \E p \in d.Package : p.import_id = item.end_id
      [] o = "user_packages" ->
             /\ \E u \in d.User : u.import_id = item.owner_id /\ u.source_id = SourceId
             /\ \E p \in d.Package : p.import_id = item.crate_id
      [] o = "user_versions" ->
             /\ \E u \in d.User : u.import_id = item.published_by /\ u.source_id = SourceId
             /\ \E v \in d.Version : v.import_id = item.version_id
      [] o = "package_urls" ->
             /\ \E p \in d.Package : p.import_id = item.import_id
             /\ \E u \in d.URL : u.url = item.url /\ u.url_type_id = item.url_type_id

\* C9: in insert_dependencies, insert_user_packages, insert_user_versions
\* and insert_package_urls every record read so far was either built once
\* (both references exist) or dropped with exactly one warning (one or both
\* are missing); the operation fails only when the environment makes it
\* fail; and when it is done the target table holds, beside what it held
\* before, exactly the rows built, those after a dropped record included.
C9_WarnAndSkip ==
    op \in RefOps =>
        /\ \A i \in 1..pos :
              IF Resolves(op, db, input[i])
              THEN Count(built, i) = 1 /\ Count(log, i) = 0
              ELSE Count(built, i) = 0 /\ Count(log, i) = 1
        /\ pc = "failed" => faults > 0
        /\ pc = "done" =>
              Keys(Target, db[Target]) =
                  Keys(Target, db_before[Target])
                      \cup Keys(Target, {built[k].row : k \in 1..Len(built)})

C9_Witness ==
    /\ op = "package_urls"
    /\ pc = "done"
    /\ run = 1
    /\ Len(input) = 2
    /\ input[1].import_id = "B" /\ input[1].url = "h2"
    /\ input[2].import_id = "A" /\ input[2].url = "h1"
    /\ Len(log) = 1
    /\ db.PackageURL = {[package_id |-> 1, url_id |-> 1]}

RECURSIVE Flatten(_)
Flatten(ss) == IF ss = <<>> THEN <<>> ELSE Head(ss) \o Flatten(Tail(ss))

\* C13: a flush that raises ends the operation in failure (the exception
\* reaches the caller), and a failed operation takes no further step of its
\* own: no item is pulled, nothing is flushed or committed, the store is not
\* touched; the only thing that follows is a new call by the caller.
C13_FailedFlushStopsRun ==
    [][/\ (pc \in {"flush", "final"} /\ faults' # faults) => pc' = "failed"
       /\ pc = "failed" =>
             \/ run' = run + 1
             \/ /\ pc' = "failed"
                /\ pos' = pos
                /\ flushed' = flushed
                /\ commits' = commits
                /\ db' = db]_vars

\* insert_packages failed in a flush of a full batch (every built row but the
\* last batch_size ones had been flushed) with input left unread.
C13_Witness ==
    /\ op = "packages"
    /\ run = 1
    /\ pc = "failed"
    /\ faults = 1
    /\ flushed # <<>>
    /\ Len(built) = Len(Flatten(flushed)) + batch_size
    /\ pos < Len(input)

\* The rows an operation other than insert_versions builds from a stream
\* against the store d, in input order, and the store one complete run of it
\* leaves behind.
RECURSIVE BuiltRows(_, _, _)
BuiltRows(o, d, items) ==
    IF items = <<>> THEN <<>>
    ELSE LET g == Generate(o, d, Head(items))
         IN  (IF g.skip THEN <<>> ELSE <<g.row>>) \o BuiltRows(o, d, Tail(items))

Uninterrupted(o, d, items) ==
    [d EXCEPT ![ModelOf(o)] = InsertRows(ModelOf(o), BuiltRows(o, d, items), @)]

\* C14 as stated: when an earlier run of the operation was aborted by a
\* failure and the operation is run again from the start on the same input
\* with no new failure, the re-run completes without error and leaves the
\* store one uninterrupted run on that input produces.
C14_RestartIdempotent ==
    (run >= 2 /\ faults_before >= 1 /\ faults = faults_before /\ Ended) =>
        /\ pc = "done"
        /\ op # "versions" => db = Uninterrupted(op, DB0, input)

\* Entity rows held by the buffer of DB._batch: one per entity, and the
\* length of the list for an item that is a list of entities.
BufferedRows(b) == Len(Flatten([k \in 1..Len(b) |-> IF b[k].list THEN b[k].val ELSE <<b[k].val>>]))

\* C15 as stated: the entity rows waiting in the buffer of DB._batch never
\* exceed the batch size, and the in-loop flush is issued exactly when their
\* number reaches the batch size, for insert_versions as for the others.
C15_BufferBounded ==
    /\ BufferedRows(batch) <= batch_size
    /\ pc = "flush" <=> BufferedRows(batch) = batch_size

BuiltSeq == [k \in 1..Len(built) |-> built[k].row]
IsPrefix(s, t) == Len(s) <= Len(t) /\ s = SubSeq(t, 1, Len(s))

\* C16: the input is read once, front to back (the read position only moves
\* forward by one, and an operation that completes has read every record);
\* the entities built are those of the records read so far, in input order,
\* the skipped ones left out; the rows of the flushes, concatenated in flush
\* order, are always a prefix of the entities built and are all of them when
\* the operation completes: nothing is written twice or out of order.
C16_WrittenInArrivalOrder ==
    /\ [](/\ IsPrefix(Flatten(flushed), BuiltSeq)
          /\ \A k \in 1..Len(built) : built[k].i <= pos
          /\ \A j, k \in 1..Len(built) : j < k => built[j].i < built[k].i
          /\ op # "versions" =>
                BuiltSeq = BuiltRows(op, db_before, SubSeq(input, 1, pos))
          /\ pc = "done" => (pos = Len(input) /\ Flatten(flushed) = BuiltSeq))
    /\ [][run' = run => pos' \in {pos, pos + 1}]_vars

\* insert_dependencies completed: three records were read, one was skipped
\* with a warning, and the two entities built went out in two flushes.
C16_Witness ==
    /\ op = "dependencies"
    /\ pc = "done"
    /\ Len(input) = 3
    /\ Len(log) = 1
    /\ Len(flushed) = 2
    /\ BuiltSeq = Flatten(flushed)
    /\ Len(built) = 2

Ids(d, model) == {r.id : r \in d[model]}

\* The foreign keys of a row of operation o are ids of rows of the store d.
ForeignKeysExist(o, row, d) ==
    CASE o = "versions" ->
             row.package_id \in Ids(d, "Package") /\ row.license_id \in Ids(d, "License")
      [] o = "dependencies" ->
             row.version_id \in Ids(d, "Version") /\ row.dependency_id \in Ids(d, "Package")
      [] o = "user_packages" ->
             row.user_id \in Ids(d, "User") /\ row.package_id \in Ids(d, "Package")
      [] o = "user_versions" ->
             row.user_id \in Ids(d, "User") /\ row.version_id \in Ids(d, "Version")
      [] o = "package_urls" ->
             row.package_id \in Ids(d, "Package") /\ row.url_id \in Ids(d, "URL")
      [] OTHER -> TRUE

\* C17: when insert_versions, insert_dependencies, insert_user_packages,
\* insert_user_versions or insert_package_urls builds an entity, each of its
\* foreign keys is the id of a row committed to the store at that moment;
\* and every row such an operation has flushed or committed references only
\* ids of rows in the store.
C17_ForeignKeysPersisted ==
    /\ [][Len(built') = Len(built) + 1 =>
             ForeignKeysExist(op, built'[Len(built')].row, db')]_vars
    /\ [](/\ \A row \in FlushedRows : ForeignKeysExist(op, row, db)
          /\ (op \in RefOps /\ pc = "done") =>
                \A row \in db[Target] : ForeignKeysExist(op, row, db))

\* insert_dependencies completed and wrote a DependsOn row.
C17_Witness ==
    /\ op = "dependencies"
    /\ pc = "done"
    /\ db[Target] # db_before[Target]
    /\ \E row \in db[Target] : row.version_id = 1 /\ row.dependency_id = 1

\* Every entry of cache c is in cache c2 with the same id.
Extends(c2, c) == \A k \in DOMAIN c : k \in DOMAIN c2 /\ c2[k] = c[k]

\* C18: within one insert_versions call no step removes a key from
\* package_cache or license_cache or maps a cached key to another id, and
\* every cached entry is the id of a row the store holds under that key.
C18_CachesOnlyGrow ==
    /\ [][run' = run => /\ Extends(package_cache', package_cache)
                        /\ Extends(license_cache', license_cache)]_vars
    /\ [](/\ \A k \in DOMAIN package_cache :
                \E r \in db.Package : r.import_id = k /\ r.id = package_cache[k]
          /\ \A k \in DOMAIN license_cache :
                \E r \in db.License : r.name = k /\ r.id = license_cache[k])

\* insert_versions has queried two chunks; the caches hold package A from
\* the bulk lookup and license GPL from a miss-path creation.
C18_Witness ==
    /\ op = "versions"
    /\ Cardinality({k \in 1..Len(qlog) : qlog[k].kind = "packages"}) = 2
    /\ "A" \in DOMAIN package_cache
    /\ "GPL" \in DOMAIN license_cache
    /\ "GPL" \notin {r.name : r \in db_before.License}

\* The chunk the record at input position i belongs to, and the number of
\* qlog entries of one kind among the first n.
ChunkOf(i) == (i - 1) \div batch_size + 1
CountKind(kind, n) == Cardinality({k \in 1..n : qlog[k].kind = kind})

\* C19: when a record of a chunk is resolved, insert_versions has issued one
\* bulk package lookup and one bulk license lookup for that chunk and each
\* chunk before it, and none beyond; a point lookup of a license is issued
\* only for a name the cache does not hold at that moment, and never twice
\* for one name within a call.
C19_OneBulkLookupPerChunk ==
    /\ [](\A k \in 1..Len(qlog) :
             /\ qlog[k].kind = "resolve" =>
                   /\ CountKind("packages", k) = ChunkOf(qlog[k].arg)
                   /\ CountKind("licenses", k) = ChunkOf(qlog[k].arg)
             /\ qlog[k].kind = "license" =>
                   \A j \in 1..(k - 1) :
                      qlog[j].kind = "license" => qlog[j].arg # qlog[k].arg)
    /\ [][(Len(qlog') > Len(qlog) /\ qlog'[Len(qlog')].kind = "license") =>
             qlog'[Len(qlog')].arg \notin DOMAIN license_cache]_vars

\* insert_versions with chunks of two records has resolved the third record,
\* after two bulk lookups of each kind and one point lookup.
C19_Witness ==
    /\ op = "versions"
    /\ batch_size = 2
    /\ \E k \in 1..Len(qlog) : qlog[k].kind = "resolve" /\ qlog[k].arg = 3
    /\ CountKind("packages", Len(qlog)) = 2
    /\ CountKind("licenses", Len(qlog)) = 2
    /\ CountKind("license", Len(qlog)) = 1

\* C21: the License table changes only in the step of insert_versions that
\* resolves a record whose package is cached and whose license is not: that
\* step commits one row of the record's license name to the store at once,
\* outside the session of DB._batch. No step removes a License row, so every
\* license fetched on the miss path of a run is in the store whatever became
\* of the run, its abort included.
C21_LicenseCommittedAtOnce ==
    /\ [][db'.License # db.License =>
             /\ op = "versions"
             /\ pc = "resolve"
             /\ idx <= Len(items_buffer)
             /\ items_buffer[idx].crate_id \in DOMAIN package_cache
             /\ items_buffer[idx].license \notin DOMAIN license_cache
             /\ db.License \subseteq db'.License
             /\ \E r \in db'.License :
                   /\ r.name = items_buffer[idx].license
                   /\ db'.License = db.License \cup {r}]_vars
    /\ [](\A k \in 1..Len(qlog) :
             qlog[k].kind = "license" => \E r \in db.License : r.name = qlog[k].arg)

\* insert_versions aborted before its commit and left a License row that the
\* store did not hold when the run started and that no Version row references.
C21_Witness ==
    /\ op = "versions"
    /\ run = 1
    /\ pc = "failed"
    /\ commits = 0
    /\ db.Version = db_before.Version
    /\ \E r \in db.License :
          /\ r \notin db_before.License
          /\ \A v \in db.Version : v.license_id # r.id

====
